---------------------------- MODULE Spec2Model ----------------------------
(***************************************************************************)
(* A model of the Wayback snapshot-to-local-mirror pipeline:               *)
(*   src/utils.py       URL normalisation, joining, asset paths            *)
(*   src/downloader.py  WaybackDownloader: asset fetch, markup rewrite,    *)
(*                      recursive page crawl                               *)
(*   src/config.py      defaults and the recognised asset tags             *)
(*   src/main.py        the driver loop over the captures                  *)
(*                                                                         *)
(* A Python str is a sequence of one-character strings, so that prefix     *)
(* tests, substring search, the regular expression of clean_url and the    *)
(* splitting done by urllib are computed character by character.  Python's *)
(* None is the value None below, which is no such sequence.                *)
(*                                                                         *)
(* A local variable of the code that is read more than once is a parameter *)
(* of a helper operator here (the operator is the rest of the function     *)
(* after the assignment), and the assignment binds it to its value through *)
(* a one-element set, The({F(v) : v \in {e}}), so that e is computed once. *)
(***************************************************************************)
EXTENDS Integers, Sequences, FiniteSets, TLC

(***************************************************************************)
(* Strings                                                                 *)
(***************************************************************************)
None == <<"<None>">>

\* a test that takes the empty string for a value
IsNone(s) == s = None

\* Python truthiness of an optional string: None and "" are falsy.
Falsy(s) == s = None \/ s = <<>>

\* x if x else None
OrNone(x) == IF Falsy(x) THEN None ELSE x

\* the element of a one-element set
The(S) == CHOOSE x \in S : TRUE

Min(S) == CHOOSE x \in S : \A y \in S : x <= y
Max(S) == CHOOSE x \in S : \A y \in S : x >= y
MinOr(S, d) == The({IF T = {} THEN d ELSE Min(T) : T \in {S}})
MaxOr(S, d) == The({IF T = {} THEN d ELSE Max(T) : T \in {S}})

\* s.startswith(p)
StartsWith(s, p) == Len(s) >= Len(p) /\ SubSeq(s, 1, Len(p)) = p

\* s.startswith((p1, p2, ...))
StartsWithAny(s, ps) == \E p \in ps : StartsWith(s, p)

\* s[i:] for a 1-based i
From(s, i) == SubSeq(s, i, Len(s))

\* s.find(p) as a 1-based index, 0 when p does not occur
Find(s, p) ==
    MinOr({i \in 1..(Len(s) - Len(p) + 1) : SubSeq(s, i, i + Len(p) - 1) = p}, 0)

\* p in s
Contains(s, p) == Find(s, p) # 0

\* the first 1-based index >= from whose character is in cs, Len(s)+1 when none
FirstOf(s, cs, from) == MinOr({i \in from..Len(s) : s[i] \in cs}, Len(s) + 1)

\* the first 1-based index >= from whose character is not in cs, Len(s)+1 when none
FirstNotOf(s, cs, from) == MinOr({i \in from..Len(s) : s[i] \notin cs}, Len(s) + 1)

\* the last 1-based index whose character is not in cs, 0 when none
LastNotOf(s, cs) == MaxOr({i \in 1..Len(s) : s[i] \notin cs}, 0)

Digits == {"0","1","2","3","4","5","6","7","8","9"}
Letters == {"a","b","c","d","e","f","g","h","i","j","k","l","m",
            "n","o","p","q","r","s","t","u","v","w","x","y","z"}

HTTP == <<"h","t","t","p",":","/","/">>
HTTPS == <<"h","t","t","p","s",":","/","/">>
DATA == <<"d","a","t","a",":">>
JAVASCRIPT == <<"j","a","v","a","s","c","r","i","p","t",":">>
MAILTO == <<"m","a","i","l","t","o",":">>
TEL == <<"t","e","l",":">>
HASH == <<"#">>
ARCHIVE_WEB == <<"w","e","b",".","a","r","c","h","i","v","e",".","o","r","g","/","w","e","b","/">>
WEB == <<"/","w","e","b","/">>
WAYBACK_PREFIX == <<"h","t","t","p","s",":","/","/","w","e","b",".","a","r","c","h","i","v","e",".","o","r","g","/","w","e","b","/">>

(***************************************************************************)
(* utils.clean_url                                                         *)
(***************************************************************************)
\* The groups (https?://)?(.+) on the text after /web/<digits>/: group(2), or
\* None when (.+) has nothing to match.  A scheme that leaves nothing for
\* (.+) is given back to it.
ReGroups(rest) ==
    IF rest = <<>> THEN None
    ELSE IF StartsWith(rest, HTTP) /\ Len(rest) > Len(HTTP)
    THEN From(rest, Len(HTTP) + 1)
    ELSE IF StartsWith(rest, HTTPS) /\ Len(rest) > Len(HTTPS)
    THEN From(rest, Len(HTTPS) + 1)
    ELSE rest

\* \d+/ from position d, where j is the first position >= d that holds no digit
ReDigits(s, d, j) ==
    IF j = d \/ j > Len(s) \/ s[j] # "/" THEN None
    ELSE The({ReGroups(rest) : rest \in {From(s, j + 1)}})

\* One attempt of the pattern /web/\d+/(https?://)?(.+) at position i:
\* group(2) of the match, or None when the pattern does not match there.
ReMatchAt(s, i) ==
    IF ~StartsWith(From(s, i), WEB) THEN None
    ELSE The({ReDigits(s, i + Len(WEB), j) : j \in {FirstNotOf(s, Digits, i + Len(WEB))}})

\* re.search(r'/web/\d+/(https?://)?(.+)', s): group(2) of the leftmost match
ReSearchGroup2(s) ==
    The({ReMatchAt(s, m) :
            m \in {MinOr({i \in 1..Len(s) : ReMatchAt(s, i) # None}, Len(s) + 1)}})

\* lines 51-52 and 56-57: a value that does not start with a scheme gets http://
EnsureScheme(u) == IF StartsWithAny(u, {HTTP, HTTPS}) THEN u ELSE HTTP \o u

\* lines 47-59, with g the group(2) of the match (None: no match)
CleanMatched(url, g) == IF g # None THEN EnsureScheme(g) ELSE EnsureScheme(url)

clean_url(url) ==
    IF Falsy(url) THEN None
    ELSE IF StartsWith(url, DATA) THEN url
    ELSE The({CleanMatched(url, g) :
                 g \in {IF Contains(url, ARCHIVE_WEB) THEN ReSearchGroup2(url)
                        ELSE None}})

(***************************************************************************)
(* urllib.parse, as called by utils.get_base_url, utils.safe_url_join,     *)
(* utils.get_asset_path and WaybackDownloader.download_page.  The inputs   *)
(* of the model hold no upper-case letter, no ';', no '[' and no white     *)
(* space, so lower-casing the scheme, the params field and the IPv6 checks *)
(* of urllib have nothing to act on.                                       *)
(***************************************************************************)
uses_relative ==
    {<<>>, <<"f","t","p">>, <<"h","t","t","p">>, <<"g","o","p","h","e","r">>, <<"n","n","t","p">>,
    <<"i","m","a","p">>, <<"w","a","i","s">>, <<"f","i","l","e">>, <<"h","t","t","p","s">>,
    <<"s","h","t","t","p">>, <<"m","m","s">>, <<"p","r","o","s","p","e","r","o">>, <<"r","t","s","p">>,
    <<"r","t","s","p","s">>, <<"r","t","s","p","u">>, <<"s","f","t","p">>, <<"s","v","n">>,
    <<"s","v","n","+","s","s","h">>, <<"w","s">>, <<"w","s","s">>}
uses_netloc ==
    {<<>>, <<"f","t","p">>, <<"h","t","t","p">>, <<"g","o","p","h","e","r">>, <<"n","n","t","p">>,
    <<"t","e","l","n","e","t">>, <<"i","m","a","p">>, <<"w","a","i","s">>, <<"f","i","l","e">>,
    <<"m","m","s">>, <<"h","t","t","p","s">>, <<"s","h","t","t","p">>, <<"s","n","e","w","s">>,
    <<"p","r","o","s","p","e","r","o">>, <<"r","t","s","p">>, <<"r","t","s","p","s">>,
    <<"r","t","s","p","u">>, <<"r","s","y","n","c">>, <<"s","v","n">>, <<"s","v","n","+","s","s","h">>,
    <<"s","f","t","p">>, <<"n","f","s">>, <<"g","i","t">>, <<"g","i","t","+","s","s","h">>, <<"w","s">>,
    <<"w","s","s">>}
scheme_chars == Letters \cup Digits \cup {"+", "-", "."}

\* s.split(c)
RECURSIVE SplitOn(_, _)
SplitAt(s, c, i) ==
    IF i > Len(s) THEN <<s>>
    ELSE <<SubSeq(s, 1, i - 1)>> \o The({SplitOn(rest, c) : rest \in {From(s, i + 1)}})
SplitOn(s, c) == The({SplitAt(s, c, i) : i \in {FirstOf(s, {c}, 1)}})

\* c.join(segs)
RECURSIVE JoinWith(_, _)
JoinWith(segs, c) ==
    IF segs = <<>> THEN <<>>
    ELSE IF Len(segs) = 1 THEN segs[1]
    ELSE segs[1] \o <<c>> \o The({JoinWith(rest, c) : rest \in {Tail(segs)}})

\* urlsplit, from the last step to the first: the query is cut at the first
\* '?' (position q), the fragment at the first '#' (position f), the netloc
\* ends at the first of '/?#' (position d), the scheme at the first ':'
\* (position i).
SplitQueryAt(sc, nl, u, fr, q) ==
    [scheme |-> sc, netloc |-> nl, path |-> SubSeq(u, 1, q - 1),
     query |-> IF q <= Len(u) THEN From(u, q + 1) ELSE <<>>, fragment |-> fr]

SplitFragmentAt(sc, nl, u, f) ==
    The({SplitQueryAt(sc, nl, v, fr, q) :
            v \in {SubSeq(u, 1, f - 1)},
            fr \in {IF f <= Len(u) THEN From(u, f + 1) ELSE <<>>},
            q \in {FirstOf(SubSeq(u, 1, f - 1), {"?"}, 1)}})

SplitNetlocAt(sc, u, d) ==
    The({SplitFragmentAt(sc, nl, v, f) :
            nl \in {SubSeq(u, 3, d - 1)},
            v \in {From(u, d)},
            f \in {FirstOf(From(u, d), {"#"}, 1)}})

SplitNetloc(sc, u) ==
    IF StartsWith(u, <<"/", "/">>)
    THEN The({SplitNetlocAt(sc, u, d) : d \in {FirstOf(u, {"/", "?", "#"}, 3)}})
    ELSE The({SplitFragmentAt(sc, <<>>, u, f) : f \in {FirstOf(u, {"#"}, 1)}})

SplitSchemeAt(url, scheme, i) ==
    IF i > 1 /\ url[1] \in Letters /\ \A k \in 1..(i - 1) : url[k] \in scheme_chars
    THEN The({SplitNetloc(sc, u) : sc \in {SubSeq(url, 1, i - 1)},
                                   u \in {From(url, i + 1)}})
    ELSE SplitNetloc(scheme, url)

\* urlsplit(url, scheme): [scheme, netloc, path, query, fragment]
urlsplit(url, scheme) ==
    The({SplitSchemeAt(url, scheme, i) : i \in {Find(url, <<":">>)}})

\* urlparse(url): the params field stays empty on the model's inputs
urlparse(url) == urlsplit(url, <<>>)

\* urlunsplit((scheme, netloc, url, query, fragment))
AddNetloc(scheme, netloc, path) ==
    IF netloc # <<>> \/ (scheme # <<>> /\ scheme \in uses_netloc
                         /\ ~StartsWith(path, <<"/", "/">>))
    THEN <<"/", "/">> \o netloc
         \o (IF path # <<>> /\ path[1] # "/" THEN <<"/">> \o path ELSE path)
    ELSE path
AddScheme(scheme, u) == IF scheme # <<>> THEN scheme \o <<":">> \o u ELSE u
AddPart(u, c, part) == IF part # <<>> THEN u \o <<c>> \o part ELSE u
AddParts(u, query, fragment) ==
    The({AddPart(v, "#", fragment) : v \in {AddPart(u, "?", query)}})
urlunsplit(scheme, netloc, path, query, fragment) ==
    The({AddParts(v, query, fragment) :
            v \in {The({AddScheme(scheme, u) : u \in {AddNetloc(scheme, netloc, path)}})}})

\* the loop of urljoin over the path segments: '..' pops, '.' is dropped
RECURSIVE ResolveSegments(_, _)
ResolveSegments(segs, acc) ==
    IF segs = <<>> THEN acc
    ELSE IF segs[1] = <<".", ".">>
         THEN The({ResolveSegments(rest, popped) :
                      rest \in {Tail(segs)},
                      popped \in {IF acc = <<>> THEN acc
                                  ELSE SubSeq(acc, 1, Len(acc) - 1)}})
    ELSE IF segs[1] = <<".">>
         THEN The({ResolveSegments(rest, acc) : rest \in {Tail(segs)}})
    ELSE The({ResolveSegments(rest, pushed) :
                 rest \in {Tail(segs)}, pushed \in {Append(acc, segs[1])}})

\* urljoin, from the last step to the first
JoinResolved(r, netloc, joined) ==
    The({urlunsplit(r.scheme, netloc, path, r.query, r.fragment) :
            path \in {IF joined = <<>> THEN <<"/">> ELSE joined}})

\* a last segment '.' or '..' leaves a trailing '/'
ResolvedPath(segments, resolved) ==
    IF segments[Len(segments)] \in {<<".">>, <<".", ".">>}
    THEN Append(resolved, <<>>) ELSE resolved

JoinPath(segments) ==
    The({JoinWith(resolved, "/") :
            resolved \in {The({ResolvedPath(segments, res) :
                                  res \in {ResolveSegments(segments, <<>>)}})}})

JoinSegments(r, netloc, segments) ==
    The({JoinResolved(r, netloc, joined) : joined \in {JoinPath(segments)}})

\* segments[1:-1] = filter(None, segments[1:-1])
FilterMiddle(segs) ==
    IF Len(segs) <= 2 THEN segs
    ELSE <<segs[1]>> \o SelectSeq(SubSeq(segs, 2, Len(segs) - 1), LAMBDA x : x # <<>>)
         \o <<segs[Len(segs)]>>

\* the base path without its last segment, unless that segment is empty
BaseParts(parts) ==
    IF parts[Len(parts)] # <<>> THEN SubSeq(parts, 1, Len(parts) - 1) ELSE parts

\* base_parts + segments of the relative path, the middle filtered
RelativeSegments(bpath, rpath) ==
    The({FilterMiddle(segs) :
            segs \in {The({BaseParts(parts) : parts \in {SplitOn(bpath, "/")}})
                      \o SplitOn(rpath, "/")}})

JoinRelative(b, r, netloc) ==
    IF r.path = <<>>
    THEN The({urlunsplit(r.scheme, netloc, b.path, query, r.fragment) :
                 query \in {IF r.query = <<>> THEN b.query ELSE r.query}})
    ELSE The({JoinSegments(r, netloc, segments) :
                 segments \in {IF r.path[1] = "/" THEN SplitOn(r.path, "/")
                               ELSE RelativeSegments(b.path, r.path)}})

JoinParsed(url, b, r) ==
    IF r.scheme # b.scheme \/ r.scheme \notin uses_relative THEN url
    ELSE IF r.scheme \in uses_netloc /\ r.netloc # <<>>
    THEN urlunsplit(r.scheme, r.netloc, r.path, r.query, r.fragment)
    ELSE The({JoinRelative(b, r, netloc) :
                 netloc \in {IF r.scheme \in uses_netloc THEN b.netloc ELSE r.netloc}})

JoinWithBase(url, b) == The({JoinParsed(url, b, r) : r \in {urlsplit(url, b.scheme)}})

\* urllib.parse.urljoin(base, url)
urljoin(base, url) ==
    IF base = <<>> THEN url
    ELSE IF url = <<>> THEN base
    ELSE The({JoinWithBase(url, b) : b \in {urlsplit(base, <<>>)}})

(***************************************************************************)
(* utils.safe_url_join, utils.get_base_url, get_wayback_url                *)
(***************************************************************************)
safe_url_join(base, url) ==
    IF Falsy(base) \/ Falsy(url) THEN None ELSE urljoin(base, url)

BaseOf(parsed) ==
    IF parsed.scheme # <<>> /\ parsed.netloc # <<>>
    THEN parsed.scheme \o <<":", "/", "/">> \o parsed.netloc
    ELSE None

get_base_url(url) ==
    IF Falsy(url) THEN None ELSE The({BaseOf(parsed) : parsed \in {urlparse(url)}})

\* lines 42-45, with c the cleaned URL
WaybackOf(c, timestamp) ==
    IF Falsy(c) THEN None ELSE WAYBACK_PREFIX \o timestamp \o <<"/">> \o c

get_wayback_url(url, timestamp) ==
    IF Falsy(url) \/ Falsy(timestamp) THEN None
    ELSE The({WaybackOf(c, timestamp) : c \in {clean_url(url)}})

(***************************************************************************)
(* utils.get_asset_path and the page file name of download_page            *)
(***************************************************************************)
\* s.lstrip('/')
LStrip(s) == The({From(s, i) : i \in {FirstNotOf(s, {"/"}, 1)}})

\* s.strip('/')
Strip(s) == The({LStrip(r) : r \in {SubSeq(s, 1, LastNotOf(s, {"/"}))}})

\* s.replace(a, b) for single characters
Replace(s, a, b) == [i \in 1..Len(s) |-> IF s[i] = a THEN b ELSE s[i]]

\* os.path.splitext: with sep the last '/' and dot the last '.' (0: none), the
\* extension is not empty when the dot follows the separator and a character
\* other than '.' stands between them
HasExtAt(path, sep, dot) ==
    dot > sep /\ \E k \in (sep + 1)..(dot - 1) : path[k] # "."

\* os.path.splitext(path)[1] is not empty
HasExt(path) ==
    The({HasExtAt(path, sep, dot) :
            sep \in {MaxOr({i \in 1..Len(path) : path[i] = "/"}, 0)},
            dot \in {MaxOr({i \in 1..Len(path) : path[i] = "."}, 0)}})

ASSETS_DIR == <<"a","s","s","e","t","s","/">>
INDEX_HTML == <<"i","n","d","e","x",".","h","t","m","l">>
DOT_HTML == <<".","h","t","m","l">>
OUTPUT_DIR == <<"d","o","w","n","l","o","a","d","e","d","_","p","a","g","e","s">>

\* The content types a response declares in the model ("" is no header), and
\* mimetypes.guess_extension on them (None: no mapping).
ContentTypes == {"", "image/png", "x/unknown"}
guess_extension(ct) ==
    IF ct = "image/png" THEN <<".", "p", "n", "g">> ELSE None

\* lines 79-84: the path of an asset whose URL path has no extension
WithExt(path, content_type, ext) ==
    IF content_type # ""
    THEN IF ext # None THEN path \o ext ELSE path
    ELSE path \o DOT_HTML

\* lines 75-86, with path the URL path without its leading slashes
AssetPathOf(path, content_type) ==
    ASSETS_DIR \o (IF path = <<>> THEN INDEX_HTML
                   ELSE IF ~HasExt(path)
                   THEN The({WithExt(path, content_type, ext) :
                                ext \in {guess_extension(content_type)}})
                   ELSE path)

get_asset_path(url, content_type) ==
    IF Falsy(url) THEN None
    ELSE The({AssetPathOf(path, content_type) : path \in {LStrip(urlparse(url).path)}})

\* os.path.join(a, b)
PathJoin(a, b) ==
    IF StartsWith(b, <<"/">>) THEN b
    ELSE IF a = <<>> \/ a[Len(a)] = "/" THEN a \o b
    ELSE a \o <<"/">> \o b

\* full_path of download_page: output_dir/<host with dots as underscores>_<timestamp>
PageDir(url, timestamp) ==
    The({PathJoin(OUTPUT_DIR, dir) :
            dir \in {Replace(urlparse(url).netloc, ".", "_") \o <<"_">> \o timestamp}})

\* filename of download_page, with path the URL path stripped of slashes
FilenameOf(path) ==
    IF path = <<>> THEN INDEX_HTML ELSE Replace(path, "/", "_") \o DOT_HTML

PageFilename(url) == The({FilenameOf(path) : path \in {Strip(urlparse(url).path)}})

\* the file download_page writes the page of url to
PagePath(url, timestamp) ==
    The({PathJoin(dir, filename) : dir \in {PageDir(url, timestamp)},
                                   filename \in {PageFilename(url)}})

(***************************************************************************)
(* config.py                                                               *)
(***************************************************************************)
DefaultMaxDepth == 2
DefaultConcurrentDownloads == 5

\* ASSET_TAGS, in the order the dict is iterated
AssetTagOrder == <<"img", "script", "link", "audio", "video", "source">>
ASSET_TAGS(tag) ==
    IF tag = "img" THEN {"src", "data-src"}
    ELSE IF tag = "link" THEN {"href"}
    ELSE IF tag \in {"script", "audio", "video", "source"} THEN {"src"}
    ELSE {}

(***************************************************************************)
(* Bounds and the inputs of the model                                      *)
(***************************************************************************)
\* the largest max_depth and concurrent_downloads given to the constructor
MaxDepthArg == 1
MaxWorkersArg == 2

\* An optional constructor argument: <<>> is None, <<n>> is n.
DepthArgs == {<<>>} \cup {<<n>> : n \in 0..MaxDepthArg}
WorkerArgs == {<<>>} \cup {<<n>> : n \in 1..MaxWorkersArg}

\* Python's `arg or default`
OrDefault(arg, default) == IF arg = <<>> \/ arg[1] = 0 THEN default ELSE arg[1]

\* A document is a sequence of elements; an element carries its tag, the one
\* attribute that holds a URL, whether it lies inside a navigation region
\* (one of the selectors of get_menu_links), and whether its text mentions
\* archive.org.
Elem(tag, attr, val, nav, text) ==
    [tag |-> tag, attr |-> attr, val |-> val, nav |-> nav, text |-> text]

ImgRel == Elem("img", "src", <<"/","i",".","p">>, FALSE, FALSE)
ImgAbs == Elem("img", "data-src", <<"h","t","t","p",":","/","/","x",".","c","/","i",".","p">>, FALSE, FALSE)
CssLink == Elem("link", "href", <<"s",".","c">>, FALSE, FALSE)
ScriptArch == Elem("script", "", <<>>, FALSE, TRUE)
AHome == Elem("a", "href", <<"/">>, FALSE, FALSE)
AA == Elem("a", "href", <<"/","a">>, FALSE, FALSE)
NavB == Elem("a", "href", <<"h","t","t","p",":","/","/","x",".","c","/","b">>, TRUE, FALSE)
AExt == Elem("a", "href", <<"h","t","t","p",":","/","/","y",".","c","/">>, FALSE, FALSE)
AFrag == Elem("a", "href", <<"#","t">>, FALSE, FALSE)
AAFrag == Elem("a", "href", <<"/","a","#","t">>, FALSE, FALSE)

\* the documents the archive may serve for a page
Docs == { <<ImgRel, ImgAbs, AA>>,
          <<NavB, AA, AHome>>,
          <<AHome, AExt, AFrag>>,
          <<ScriptArch, CssLink>>,
          <<AA, AAFrag>> }

\* what the transport returns for a page: an error, a response with an empty
\* body, or a document
PageResponses ==
    {[status |-> "error", doc |-> <<>>], [status |-> "empty", doc |-> <<>>]}
    \cup {[status |-> "ok", doc |-> d] : d \in Docs}

\* what the transport and the file system do to an asset: the request fails,
\* or it answers with a content type and the body is saved or the write fails
AssetResponses ==
    {[status |-> "error", content_type |-> "", saved |-> FALSE]}
    \cup {[status |-> "ok", content_type |-> ct, saved |-> s] :
             ct \in ContentTypes, s \in BOOLEAN}

\* the root URLs given to the driver, and the capture timestamps of the index
Roots == { <<"h","t","t","p",":","/","/","x",".","c","/">>, <<"h","t","t","p","s",":","/","/","x",".","c","/">> }
SnapshotLists == { << <<"1">> >> }

(***************************************************************************)
(* State                                                                   *)
(***************************************************************************)
VARIABLES
    args,                 \* the constructor's arguments
    max_depth,            \* self.max_depth
    concurrent_downloads, \* self.concurrent_downloads
    processed_assets,     \* self.processed_assets
    root,                 \* the URL the driver crawls
    captures,             \* the timestamps the driver has still to crawl
    timestamp,            \* the timestamp of the crawl in progress
    visited,              \* the visited set of the crawl in progress
    stack,                \* the download_page invocations, innermost last
    soup,                 \* the document tree process_html is working on
    futures,              \* the download_asset tasks of that document
    files,                \* the file system: path -> what was written
    asset_fetches,        \* history: asset URL -> transport fetches issued
    started,              \* history: page URL -> pipeline starts, this crawl
    fn_call               \* the pure-function harness: operation, inputs, result

vars == <<args, max_depth, concurrent_downloads, processed_assets, root, captures,
          timestamp, visited, stack, soup, futures, files, asset_fetches, started,
          fn_call>>

crawl_vars == <<args, max_depth, concurrent_downloads, processed_assets, root,
                captures, timestamp, visited, stack, soup, futures, files,
                asset_fetches, started>>

NoCall == [op |-> "none", a |-> <<>>, b |-> <<>>, res |-> <<>>]

Top == stack[Len(stack)]
\* a return that takes every caller down with it
Abort == <<>>

\* the stack after the innermost call has returned
Pop == SubSeq(stack, 1, Len(stack) - 1)
SetTop(f) == [stack EXCEPT ![Len(stack)] = f]
Frame(url, depth) ==
    [url |-> url, depth |-> depth, pc |-> "enter", menu_links |-> {}, menu |-> {},
     links |-> <<>>]

\* a top-level call that goes on with the visited set of the call before it
SharedVisited == visited

\* lines 240-241: the visited set of a top-level call
FreshVisited == {}

\* f with f[k] incremented; a key not yet in f counts as 0
Bump(f, k) ==
    [x \in DOMAIN f \cup {k} |->
        IF x = k THEN (IF k \in DOMAIN f THEN f[k] ELSE 0) + 1 ELSE f[x]]

\* WaybackDownloader.__init__
Init ==
    /\ args \in [max_depth : DepthArgs, concurrent_downloads : WorkerArgs]
    /\ max_depth = OrDefault(args.max_depth, DefaultMaxDepth)
    /\ concurrent_downloads =
           OrDefault(args.concurrent_downloads, DefaultConcurrentDownloads)
    /\ processed_assets = {}
    /\ root \in Roots
    /\ captures \in SnapshotLists
    /\ timestamp = <<>>
    /\ visited = {}
    /\ stack = <<>>
    /\ soup = <<>>
    /\ futures = <<>>
    /\ files = <<>>
    /\ asset_fetches = <<>>
    /\ started = <<>>
    /\ fn_call = NoCall

(***************************************************************************)
(* WaybackDownloader.process_html                                          *)
(***************************************************************************)
UrlOfHost(url) == urlparse(url).netloc

\* lines 150-153: the elements that survive the removal of archive.org elements
Decompose(doc) ==
    SelectSeq(doc, LAMBDA e : ~(e.tag \in {"script", "style", "link", "iframe"} /\ e.text))

\* join(base, clean) when both steps give a value, None otherwise
\* (lines 166-168, 185-187, 231-233, 304-306)
JoinClean(base, clean) ==
    IF Falsy(clean) THEN None
    ELSE The({OrNone(joined) : joined \in {safe_url_join(base, clean)}})

\* lines 162-168: the URL download_asset is submitted with for element e,
\* None when nothing is submitted
AssetTarget(e, base_url) ==
    IF /\ e.attr \in ASSET_TAGS(e.tag)
       /\ e.val # <<>>
       /\ ~StartsWithAny(e.val, {DATA, JAVASCRIPT, HASH, MAILTO, TEL})
    THEN The({JoinClean(base_url, clean) : clean \in {clean_url(e.val)}})
    ELSE None

\* lines 169-170: the future of element k, submitted with URL t
TaskFor(k, t) ==
    IF t = None THEN <<>>
    ELSE << [el |-> k, url |-> t, pc |-> "queued", result |-> None,
             outcome |-> "none"] >>

\* lines 159-170: the futures list, tag by tag in the order of ASSET_TAGS and
\* in document order within a tag
RECURSIVE SubmitTag(_, _, _, _)
SubmitTag(doc, tag, base_url, k) ==
    IF k > Len(doc) THEN <<>>
    ELSE The({TaskFor(k, t) :
                 t \in {IF doc[k].tag = tag THEN AssetTarget(doc[k], base_url)
                        ELSE None}})
         \o SubmitTag(doc, tag, base_url, k + 1)

RECURSIVE SubmitAll(_, _, _)
SubmitAll(doc, base_url, t) ==
    IF t > Len(AssetTagOrder) THEN <<>>
    ELSE SubmitTag(doc, AssetTagOrder[t], base_url, 1) \o SubmitAll(doc, base_url, t + 1)

\* the anchors and hrefs the link loops act on (lines 183, 229, 302)
FollowedHref(href) ==
    href # <<>> /\ ~StartsWithAny(href, {JAVASCRIPT, MAILTO, TEL, HASH})

\* lines 184-188, with joined the cleaned and joined href (None: none)
HrefOr(joined, href) == IF joined = None THEN href ELSE joined

\* lines 181-188: the value of a['href'] after the link fixing
FixAnchorHref(href, base_url) ==
    IF FollowedHref(href)
    THEN The({HrefOr(joined, href) :
                 joined \in {The({JoinClean(base_url, clean) :
                                     clean \in {clean_url(href)}})}})
    ELSE href

\* lines 172-176: the value of element k's attribute after the futures' results
\* (done: the futures of element k that returned a path)
ResultOr(futs, done, val) == IF done = {} THEN val ELSE futs[Max(done)].result

ApplyResult(doc, futs, k) ==
    The({ResultOr(futs, done, doc[k].val) :
            done \in {{i \in 1..Len(futs) : futs[i].el = k /\ ~Falsy(futs[i].result)}}})

\* lines 172-191: the tree that is serialised
Rewritten(doc, futs, base_url) ==
    [k \in 1..Len(doc) |->
        IF doc[k].tag = "a" /\ doc[k].attr = "href"
        THEN [doc[k] EXCEPT !.val = FixAnchorHref(doc[k].val, base_url)]
        ELSE [doc[k] EXCEPT !.val = ApplyResult(doc, futs, k)]]

(***************************************************************************)
(* WaybackDownloader.get_menu_links and the link loops of download_page    *)
(***************************************************************************)
\* lines 228-233 and 301-305: the URL an anchor's href leads to, None when the
\* anchor is passed over
LinkTarget(href, url) ==
    IF FollowedHref(href)
    THEN The({JoinClean(url, clean) : clean \in {clean_url(href)}})
    ELSE None

Anchors(doc) == SelectSeq(doc, LAMBDA e : e.tag = "a" /\ e.attr = "href")

get_menu_links(doc, base_url) ==
    {LinkTarget(e.val, base_url) : e \in {doc[k] : k \in {i \in 1..Len(doc) :
        doc[i].tag = "a" /\ doc[i].attr = "href" /\ doc[i].nav}}} \ {None}

\* lines 294-296: the menu links download_page is called with
MenuCalls(doc, url) ==
    {m \in get_menu_links(doc, url) : UrlOfHost(m) = UrlOfHost(url)}

\* a general loop that follows a link to any host
CallForAnyHost(next_url, url, menu_links) ==
    IF next_url # None /\ next_url \notin menu_links THEN <<next_url>> ELSE <<>>

\* lines 306-308: the call of the general loop for next_url, if it makes one
CallFor(next_url, url, menu_links) ==
    IF /\ next_url # None
       /\ next_url \notin menu_links
       /\ UrlOfHost(next_url) = UrlOfHost(url)
    THEN <<next_url>> ELSE <<>>

\* lines 300-308: the URLs download_page is called with by the general loop,
\* in document order
RECURSIVE LinkCallsFrom(_, _, _)
LinkCallsFrom(anchors, url, menu_links) ==
    IF anchors = <<>> THEN <<>>
    ELSE The({CallFor(next_url, url, menu_links) :
                 next_url \in {LinkTarget(anchors[1].val, url)}})
         \o The({LinkCallsFrom(rest, url, menu_links) : rest \in {Tail(anchors)}})

LinkCalls(doc, url) ==
    The({LinkCallsFrom(anchors, url, menu_links) :
            anchors \in {Anchors(doc)}, menu_links \in {get_menu_links(doc, url)}})

\* a page that expands its links at max_depth too
ExpandsAtLimit(depth) == depth <= max_depth

\* line 289: whether download_page expands the links of a page at this depth
Expands(depth) == depth < max_depth

\* a guard that does not look at the visited set
SkipsIgnoringVisited(url, depth) == Falsy(url) \/ depth > max_depth

\* line 243: whether download_page returns at once
Skips(url, depth) == Falsy(url) \/ url \in visited \/ depth > max_depth

\* a general loop that does not wait for the menu loop
MenuSkipped(f) == TRUE

\* lines 294-300: the menu loop of call f is over
MenuDone(f) == f.menu = {}

\* a loop that never moves on to the next link
SameLinks(links) == links

\* line 300: the links the general loop has still to look at after this one
RestLinks(links) == Tail(links)

(***************************************************************************)
(* The driver (main.py, lines 315-327) and download_page                   *)
(***************************************************************************)
\* main: the next capture is crawled by a top-level download_page(url, timestamp),
\* whose visited set is a fresh one (lines 240-241).
MainCall ==
    /\ stack = <<>>
    /\ captures # <<>>
    /\ timestamp' = Head(captures)
    /\ captures' = Tail(captures)
    /\ visited' = FreshVisited
    /\ started' = <<>>
    /\ stack' = <<Frame(root, 0)>>
    /\ UNCHANGED <<args, max_depth, concurrent_downloads, processed_assets, root,
                   soup, futures, files, asset_fetches, fn_call>>

\* download_page, lines 243-246: skip, or mark the URL visited
Enter ==
    /\ stack # <<>>
    /\ Top.pc = "enter"
    /\ IF Skips(Top.url, Top.depth)
       THEN /\ stack' = Pop
            /\ UNCHANGED <<visited, started>>
       ELSE /\ visited' = visited \cup {Top.url}
            /\ started' = Bump(started, Top.url)
            /\ stack' = SetTop([Top EXCEPT !.pc = "fetch"])
    /\ UNCHANGED <<args, max_depth, concurrent_downloads, processed_assets, root,
                   captures, timestamp, soup, futures, files, asset_fetches, fn_call>>

\* download_page, lines 248-268, and process_html, lines 130-170: the capture is
\* fetched; the archive answers with an error, an empty body or a document; the
\* document is parsed, stripped of archive.org elements, and one download_asset
\* task per asset reference is submitted to the pool.
FetchPage ==
    /\ stack # <<>>
    /\ Top.pc = "fetch"
    /\ \E resp \in PageResponses :
         IF \/ get_wayback_url(Top.url, timestamp) = None
            \/ resp.status # "ok"
            \/ get_base_url(Top.url) = None
         THEN /\ stack' = Pop
              /\ UNCHANGED <<soup, futures>>
         ELSE /\ \E doc \in {Decompose(resp.doc)} :
                   \E base_url \in {get_base_url(Top.url)} :
                     /\ soup' = doc
                     /\ futures' = SubmitAll(doc, base_url, 1)
              /\ stack' = SetTop([Top EXCEPT !.pc = "assets"])
    /\ UNCHANGED <<args, max_depth, concurrent_downloads, processed_assets, root,
                   captures, timestamp, visited, files, asset_fetches, started, fn_call>>

(***************************************************************************)
(* download_asset, run by the pool's worker threads                        *)
(***************************************************************************)
\* the tasks a worker thread is running
Running == {i \in 1..Len(futures) : futures[i].pc \in {"add", "fetch"}}

Finish(i, result, outcome) ==
    [futures EXCEPT ![i] = [@ EXCEPT !.pc = "done", !.result = result,
                                     !.outcome = outcome]]

\* a pool that starts a task for whatever is queued
WorkersUnbounded == TRUE

\* line 156: ThreadPoolExecutor(max_workers=self.concurrent_downloads) has a
\* thread to run one more task
WorkerFree == Cardinality(Running) < concurrent_downloads

\* line 97: whether download_asset returns at once
AssetSkips(url) == Falsy(url) \/ url \in processed_assets

\* A free worker takes the oldest queued task and runs line 97, the membership
\* test of processed_assets.
AssetCheck(i) ==
    /\ futures[i].pc = "queued"
    /\ \A j \in 1..(i - 1) : futures[j].pc # "queued"
    /\ WorkerFree
    /\ IF AssetSkips(futures[i].url)
       THEN futures' = Finish(i, None, "skipped")
       ELSE futures' = [futures EXCEPT ![i].pc = "add"]
    /\ UNCHANGED <<args, max_depth, concurrent_downloads, processed_assets, root,
                   captures, timestamp, visited, stack, soup, files, asset_fetches,
                   started, fn_call>>

\* line 100: the URL is added to processed_assets
AssetAdd(i) ==
    /\ futures[i].pc = "add"
    /\ processed_assets' = processed_assets \cup {futures[i].url}
    /\ futures' = [futures EXCEPT ![i].pc = "fetch"]
    /\ UNCHANGED <<args, max_depth, concurrent_downloads, root, captures, timestamp,
                   visited, stack, soup, files, asset_fetches, started, fn_call>>

\* what save_to_file leaves at base_path/asset_path (lines 119, utils 99-107)
AssetFile(url) == [kind |-> "asset", url |-> url, depth |-> Top.depth, html |-> <<>>]
AssetFilePath(asset_path) ==
    The({PathJoin(base_path, asset_path) : base_path \in {PageDir(Top.url, timestamp)}})

\* lines 102-126: the asset is requested from the archive; the transport fails,
\* or answers with a content type, and the body is saved or the write fails.
AssetFetch(i) ==
    /\ futures[i].pc = "fetch"
    /\ IF get_wayback_url(futures[i].url, timestamp) = None
       THEN /\ futures' = Finish(i, None, "failed")
            /\ UNCHANGED <<files, asset_fetches>>
       ELSE /\ asset_fetches' = Bump(asset_fetches, futures[i].url)
            /\ \E resp \in AssetResponses :
                 IF resp.status = "ok" /\ resp.saved
                 THEN \E asset_path \in
                             {get_asset_path(futures[i].url, resp.content_type)} :
                        /\ files' = (AssetFilePath(asset_path)
                                       :> AssetFile(futures[i].url)) @@ files
                        /\ futures' = Finish(i, asset_path, "saved")
                 ELSE /\ futures' =
                           Finish(i, None,
                                  IF resp.status = "ok" THEN "unsaved" ELSE "failed")
                      /\ UNCHANGED files
    /\ UNCHANGED <<args, max_depth, concurrent_downloads, processed_assets, root,
                   captures, timestamp, visited, stack, soup, started, fn_call>>

(***************************************************************************)
(* process_html, lines 172-198, and the rest of download_page              *)
(***************************************************************************)
\* lines 172-178: the page-processing thread waits for the futures one by one,
\* in the order of their submission, and writes a returned path into the
\* element's attribute as soon as that future has its result.
TakeResult ==
    /\ stack # <<>>
    /\ Top.pc = "assets"
    /\ \E i \in 1..Len(futures) :
         /\ futures[i].pc = "done"
         /\ \A j \in 1..(i - 1) : futures[j].pc = "taken"
         /\ soup' = IF Falsy(futures[i].result) THEN soup
                    ELSE [soup EXCEPT ![futures[i].el].val = futures[i].result]
         /\ futures' = [futures EXCEPT ![i].pc = "taken"]
    /\ UNCHANGED <<args, max_depth, concurrent_downloads, processed_assets, root,
                   captures, timestamp, visited, stack, files, asset_fetches,
                   started, fn_call>>

\* a pool that is left without waiting for its futures
NoneAwaited(futs) == TRUE

\* lines 156-178: the result loop is over and the executor's `with` block is
\* left, every future having returned
AllTaken(futs) == \A i \in 1..Len(futs) : futs[i].pc = "taken"

\* The result loop is over: the anchors are fixed and the tree is serialised.
Rewrite ==
    /\ stack # <<>>
    /\ Top.pc = "assets"
    /\ AllTaken(futures)
    /\ \E base_url \in {get_base_url(Top.url)} :
         soup' = Rewritten(soup, futures, base_url)
    /\ stack' = SetTop([Top EXCEPT !.pc = "persist"])
    /\ UNCHANGED <<args, max_depth, concurrent_downloads, processed_assets, root,
                   captures, timestamp, visited, futures, files, asset_fetches,
                   started, fn_call>>

\* what save_to_file leaves at full_path/filename (line 283)
PageFile == [kind |-> "page", url |-> Top.url, depth |-> Top.depth, html |-> soup]

\* lines 273-291: the page is written (or the write fails); below max_depth its
\* menu links and its other same-host links are collected for the two loops.
Persist ==
    /\ stack # <<>>
    /\ Top.pc = "persist"
    /\ \E saved \in BOOLEAN :
         IF ~saved
         THEN /\ stack' = Pop
              /\ UNCHANGED files
         ELSE /\ files' = (PagePath(Top.url, timestamp) :> PageFile) @@ files
              /\ IF Expands(Top.depth)
                 THEN stack' = SetTop([Top EXCEPT !.pc = "expand",
                                                  !.menu_links = get_menu_links(soup, Top.url),
                                                  !.menu = MenuCalls(soup, Top.url),
                                                  !.links = LinkCalls(soup, Top.url)])
                 ELSE stack' = Pop
    /\ soup' = <<>>
    /\ futures' = <<>>
    /\ UNCHANGED <<args, max_depth, concurrent_downloads, processed_assets, root,
                   captures, timestamp, visited, asset_fetches, started, fn_call>>

\* lines 294-297: the next menu link, in the set's iteration order
ExpandMenu ==
    /\ stack # <<>>
    /\ Top.pc = "expand"
    /\ \E m \in Top.menu :
         stack' = Append(SetTop([Top EXCEPT !.menu = @ \ {m}]), Frame(m, Top.depth + 1))
    /\ UNCHANGED <<args, max_depth, concurrent_downloads, processed_assets, root,
                   captures, timestamp, visited, soup, futures, files, asset_fetches,
                   started, fn_call>>

\* lines 300-309: the next of the other links, in document order
ExpandLink ==
    /\ stack # <<>>
    /\ Top.pc = "expand"
    /\ MenuDone(Top)
    /\ Top.links # <<>>
    /\ stack' = Append(SetTop([Top EXCEPT !.links = RestLinks(@)]),
                       Frame(Head(Top.links), Top.depth + 1))
    /\ UNCHANGED <<args, max_depth, concurrent_downloads, processed_assets, root,
                   captures, timestamp, visited, soup, futures, files, asset_fetches,
                   started, fn_call>>

\* line 311: both loops are over
Return ==
    /\ stack # <<>>
    /\ Top.pc = "expand"
    /\ Top.menu = {}
    /\ Top.links = <<>>
    /\ stack' = Pop
    /\ UNCHANGED <<args, max_depth, concurrent_downloads, processed_assets, root,
                   captures, timestamp, visited, soup, futures, files, asset_fetches,
                   started, fn_call>>

Next ==
    \/ MainCall
    \/ Enter
    \/ FetchPage
    \/ \E i \in 1..Len(futures) : AssetCheck(i)
    \/ \E i \in 1..Len(futures) : AssetAdd(i)
    \/ \E i \in 1..Len(futures) : AssetFetch(i)
    \/ TakeResult
    \/ Rewrite
    \/ Persist
    \/ ExpandMenu
    \/ ExpandLink
    \/ Return

Spec == Init /\ [][Next]_vars

\* A run over two captures of the same root URL, by a downloader constructed
\* with max_depth = 1 and one worker.
TwoCaptures == << <<"1">>, <<"2">> >>

InitCaptures ==
    /\ args \in [max_depth : {<<1>>}, concurrent_downloads : {<<1>>}]
    /\ max_depth = OrDefault(args.max_depth, DefaultMaxDepth)
    /\ concurrent_downloads =
           OrDefault(args.concurrent_downloads, DefaultConcurrentDownloads)
    /\ processed_assets = {}
    /\ root \in Roots
    /\ captures = TwoCaptures
    /\ timestamp = <<>>
    /\ visited = {}
    /\ stack = <<>>
    /\ soup = <<>>
    /\ futures = <<>>
    /\ files = <<>>
    /\ asset_fetches = <<>>
    /\ started = <<>>
    /\ fn_call = NoCall

SpecCaptures == InitCaptures /\ [][Next]_vars

\* The run has ended: every capture was crawled and every call has returned.
Finished == stack = <<>> /\ captures = <<>>

\* The program keeps taking steps while it has one to take: every call of the
\* transport returns and every worker thread is scheduled.
FairSpec == Spec /\ WF_vars(Next)

(***************************************************************************)
(* The URL functions on their own: clean_url and the anchor fixing of      *)
(* process_html, applied to every input built from a vocabulary of URL     *)
(* pieces.                                                                 *)
(***************************************************************************)
MaxParts == 3

UrlParts ==
    { <<"h","t","t","p",":","/","/">>,
      <<"h","t","t","p","s",":","/","/">>,
      <<"w","e","b",".","a","r","c","h","i","v","e",".","o","r","g","/","w","e","b","/","1","/">>,
      <<"/","w","e","b","/","1","/">>,
      <<"x",".","c">>,
      <<"/","a">>,
      <<"a",".","h">>,
      <<"d","a","t","a",":">>,
      <<"/","/">> }

\* the concatenations of at most n pieces
RECURSIVE Concats(_)
Concats(n) ==
    IF n = 0 THEN {<<>>}
    ELSE Concats(n - 1) \cup {p \o s : p \in UrlParts, s \in Concats(n - 1)}

UrlInputs == Concats(MaxParts)

\* the original_url values process_html is called with
Originals == { <<"h","t","t","p",":","/","/","x",".","c","/","p">>, <<"h","t","t","p","s",":","/","/","x",".","c","/","p">> }

InitUrl ==
    /\ Init
    /\ args = [max_depth |-> <<>>, concurrent_downloads |-> <<>>]
    /\ root = <<"h","t","t","p",":","/","/","x",".","c","/">>

\* utils.clean_url(u), called once on an input
CleanUrlCall ==
    /\ fn_call = NoCall
    /\ \E u \in UrlInputs \cup {None} :
         fn_call' = [op |-> "clean_url", a |-> u, b |-> <<>>, res |-> clean_url(u)]
    /\ UNCHANGED crawl_vars

\* process_html, lines 180-188, on an anchor <a href=h> of a page fetched for
\* original_url o
FixAnchorCall ==
    /\ fn_call = NoCall
    /\ \E o \in Originals :
         \E h \in UrlInputs \ {<<>>} :
           fn_call' = [op |-> "fix_anchor", a |-> h, b |-> o,
                       res |-> FixAnchorHref(h, get_base_url(o))]
    /\ UNCHANGED crawl_vars

\* utils.get_base_url(u)
BaseUrlCall ==
    /\ fn_call = NoCall
    /\ \E u \in UrlInputs \cup {None} :
         fn_call' = [op |-> "get_base_url", a |-> u, b |-> <<>>, res |-> get_base_url(u)]
    /\ UNCHANGED crawl_vars

\* the base URLs and the timestamps the two-argument functions are called
\* with, None and the empty string among them
JoinBases == {None, <<>>, <<"h","t","t","p",":","/","/","x",".","c">>}
Timestamps == {None, <<>>, <<"1">>}

\* utils.safe_url_join(b, u)
JoinCall ==
    /\ fn_call = NoCall
    /\ \E b \in JoinBases :
         \E u \in UrlInputs \cup {None} :
           fn_call' = [op |-> "safe_url_join", a |-> b, b |-> u,
                       res |-> safe_url_join(b, u)]
    /\ UNCHANGED crawl_vars

\* WaybackDownloader.get_wayback_url(u, t)
WaybackCall ==
    /\ fn_call = NoCall
    /\ \E u \in UrlInputs \cup {None} :
         \E t \in Timestamps :
           fn_call' = [op |-> "get_wayback_url", a |-> u, b |-> t,
                       res |-> get_wayback_url(u, t)]
    /\ UNCHANGED crawl_vars

\* utils.get_asset_path(u, content_type), content_type being what line 113 of
\* download_asset reads from the response
AssetPathCall ==
    /\ fn_call = NoCall
    /\ \E u \in UrlInputs \cup {None} :
         \E ct \in ContentTypes :
           fn_call' = [op |-> "get_asset_path", a |-> u, b |-> ct,
                       res |-> get_asset_path(u, ct)]
    /\ UNCHANGED crawl_vars

(***************************************************************************)
(* WaybackDownloader.get_snapshots                                         *)
(***************************************************************************)
MaxRows == 3

\* the rows of the index's table: the header row and two captures
HEADER_ROW == <<"timestamp", "original", "statuscode", "digest">>
IndexRows == { HEADER_ROW,
               <<"1", "x.c", "200", "d1">>,
               <<"2", "x.c", "200", "d2">> }

\* the tables of at most n rows
RECURSIVE Tables(_)
Tables(n) ==
    IF n = 0 THEN {<<>>}
    ELSE Tables(n - 1) \cup {<<r>> \o t : r \in IndexRows, t \in Tables(n - 1)}

\* what the index answers: the request or the decoding of its body fails, or
\* the body is a table
IndexResponses ==
    {[status |-> "error", rows |-> <<>>]}
    \cup {[status |-> "ok", rows |-> t] : t \in Tables(MaxRows)}

\* a client that hands on the table as it came
WholeTable(response) == IF response.status # "ok" THEN <<>> ELSE response.rows

\* lines 52-79: the rows after the header, [] for a failed request
get_snapshots(response) ==
    IF response.status # "ok" THEN <<>>
    ELSE IF response.rows = <<>> \/ Len(response.rows) < 2 THEN <<>>
    ELSE Tail(response.rows)

SnapshotsCall ==
    /\ fn_call = NoCall
    /\ \E r \in IndexResponses :
         fn_call' = [op |-> "get_snapshots", a |-> r, b |-> <<>>,
                     res |-> get_snapshots(r)]
    /\ UNCHANGED crawl_vars

NextUrl ==
    \/ CleanUrlCall
    \/ FixAnchorCall
    \/ BaseUrlCall
    \/ JoinCall
    \/ WaybackCall
    \/ AssetPathCall
    \/ SnapshotsCall

SpecUrl == InitUrl /\ [][NextUrl]_vars

(***************************************************************************)
(* Properties                                                              *)
(***************************************************************************)
PageFiles == {p \in DOMAIN files : files[p].kind = "page"}

\* C1: under every interleaving of the pool's threads, at most one transport
\* fetch is issued per distinct asset URL during one run of a downloader.
C1_OneFetchPerAsset ==
    \A u \in DOMAIN asset_fetches : asset_fetches[u] <= 1

\* C2: a downloader constructed with max_depth = 0 persists the root page only
\* and makes no recursive download_page call.
C2_DepthZeroCrawlsRootOnly ==
    args.max_depth = <<0>> =>
        /\ \A i \in 1..Len(stack) : stack[i].depth = 0
        /\ Cardinality(PageFiles) <= 1

\* C3: within one top-level download_page call the page pipeline is started at
\* most once for each URL.
C3_PipelineOncePerUrl ==
    \A u \in DOMAIN started : started[u] <= 1

\* the link graph has led back to the root (root -> page -> root), whose
\* pipeline has been started once, and the call is about to be skipped
C3_Witness ==
    /\ Len(stack) = 3
    /\ Top.pc = "enter"
    /\ Top.url = stack[1].url
    /\ Top.url \in visited
    /\ Top.url \in DOMAIN started
    /\ started[Top.url] = 1

\* C4: every crawl terminates: every download_page call returns, whatever the
\* link graph and whichever fetches fail.
C4_CrawlTerminates == <>Finished

\* a crawl that has ended after recursing into a linked page, fetching assets
\* and leaving a visited page without a file (a fetch or a write failed)
C4_Witness ==
    /\ Finished
    /\ \E p \in PageFiles : files[p].depth >= 1
    /\ asset_fetches # <<>>
    /\ Cardinality(visited) > Cardinality(PageFiles)

\* C5: the root is processed at depth 0, no page is fetched or persisted at a
\* depth greater than max_depth, and a page expands its links, by calls at
\* depth + 1, only when its own depth is strictly less than max_depth.
C5_DepthBounded ==
    /\ stack # <<>> => stack[1].depth = 0 /\ stack[1].url = root
    /\ \A i \in 1..Len(stack) :
         /\ stack[i].pc # "enter" => stack[i].depth <= max_depth
         /\ stack[i].pc = "expand" => stack[i].depth < max_depth
         /\ i > 1 => /\ stack[i - 1].pc = "expand"
                     /\ stack[i].depth = stack[i - 1].depth + 1
    /\ \A p \in DOMAIN files : files[p].depth <= max_depth

\* a page persisted at depth max_depth has returned without expanding: its
\* caller, one level up, goes on with its own links
C5_Witness ==
    /\ stack # <<>>
    /\ Top.pc = "expand"
    /\ Top.depth = max_depth - 1
    /\ \E p \in PageFiles : files[p].depth = max_depth

\* the position after the digits of a /web/<digits> that starts at i
DigitsEnd(u, i) == FirstNotOf(u, Digits, i + Len(WEB))

\* /web/<digits>/<original URL with scheme> starts at position i of u
RewriteAt(u, i) ==
    /\ StartsWith(From(u, i), WEB)
    /\ DigitsEnd(u, i) > i + Len(WEB)
    /\ DigitsEnd(u, i) <= Len(u)
    /\ u[DigitsEnd(u, i)] = "/"
    /\ \E sch \in {HTTP, HTTPS} :
         /\ StartsWith(From(u, DigitsEnd(u, i) + 1), sch)
         /\ Len(u) > DigitsEnd(u, i) + Len(sch)

EmbeddedOriginals(u) ==
    {From(u, DigitsEnd(u, i) + 1) : i \in {k \in 1..Len(u) : RewriteAt(u, k)}}

\* C6: for a URL that contains /web/<digits>/<original URL with scheme>,
\* clean_url returns the embedded original URL, its scheme preserved, with or
\* without the archive host in front.
C6_CleanUrlRecoversOriginal ==
    (fn_call.op = "clean_url" /\ Cardinality(EmbeddedOriginals(fn_call.a)) = 1) =>
        \A o \in EmbeddedOriginals(fn_call.a) : fn_call.res = o

\* C7: clean_url is idempotent on its non-null results.
C7_CleanUrlIdempotent ==
    (fn_call.op = "clean_url" /\ fn_call.res # None) =>
        clean_url(fn_call.res) = fn_call.res

WellFormedHttp(parsed) ==
    /\ parsed.scheme \in {<<"h","t","t","p">>, <<"h","t","t","p","s">>}
    /\ parsed.netloc # <<>>

\* C8: clean_url returns null or an absolute URL with scheme http or https and
\* a non-empty host.
C8_CleanUrlWellFormed ==
    fn_call.op = "clean_url" =>
        fn_call.res = None \/ WellFormedHttp(urlparse(fn_call.res))

\* C9: an anchor's href that is followed (not javascript:, mailto:, tel: or a
\* fragment) and is no archive rewrite is set to the standard resolution of
\* the href against scheme://host of original_url.
C9_AnchorResolvedAgainstBase ==
    (/\ fn_call.op = "fix_anchor"
     /\ FollowedHref(fn_call.a)
     /\ ~Contains(fn_call.a, WEB)) =>
        fn_call.res = urljoin(get_base_url(fn_call.b), fn_call.a)

\* C10: after process_html, the attribute of an asset whose fetch failed holds
\* the cleaned URL resolved against the base, the URL the fetch was issued for.
C10_FailedAssetKeepsAbsoluteUrl ==
    (stack # <<>> /\ Top.pc = "persist") =>
        \A i \in 1..Len(futures) :
            futures[i].outcome = "failed" =>
                soup[futures[i].el].val = futures[i].url

\* the pages the crawl has started and left without a file: their capture was
\* not served, or the write failed
FailedPages ==
    {u \in visited : /\ \A p \in PageFiles : files[p].url # u
                     /\ \A i \in 1..Len(stack) : stack[i].url # u}

\* C11: a call of download_page that returns, after a failure as after a
\* success, ends that call only: its callers stay as they are, and a call's
\* pending links shrink only by the link download_page is called for next.
C11_FailureEndsOnlyItsNode ==
    [][/\ Len(stack') < Len(stack) => stack' = SubSeq(stack, 1, Len(stack) - 1)
       /\ \A i \in 1..Len(stack) :
            (/\ i <= Len(stack')
             /\ stack[i].pc = "expand"
             /\ stack'[i].pc = "expand"
             /\ <<stack'[i].menu, stack'[i].links>> # <<stack[i].menu, stack[i].links>>) =>
                /\ i = Len(stack)
                /\ Len(stack') = i + 1
                /\ stack'[i + 1].pc = "enter"
                /\ stack'[i + 1].depth = stack[i].depth + 1
                /\ \/ /\ stack'[i + 1].url \in stack[i].menu
                      /\ stack'[i].menu = stack[i].menu \ {stack'[i + 1].url}
                      /\ stack'[i].links = stack[i].links
                   \/ /\ stack[i].links # <<>>
                      /\ stack'[i + 1].url = stack[i].links[1]
                      /\ stack'[i].links = SubSeq(stack[i].links, 2, Len(stack[i].links))
                      /\ stack'[i].menu = stack[i].menu]_vars

\* a page has failed and its caller, back in its loop, calls download_page for
\* the next sibling link
C11_Witness ==
    /\ Len(stack) >= 2
    /\ Top.pc = "enter"
    /\ stack[Len(stack) - 1].pc = "expand"
    /\ \E u \in FailedPages : u # Top.url

\* C12: every page the crawl runs the pipeline for, and every URL download_page
\* is called with, has the host of the crawl's root URL.
C12_SameHostOnly ==
    /\ \A i \in 1..Len(stack) : UrlOfHost(stack[i].url) = UrlOfHost(root)
    /\ \A u \in DOMAIN started : UrlOfHost(u) = UrlOfHost(root)
    /\ \A p \in PageFiles : UrlOfHost(files[p].url) = UrlOfHost(root)

\* a persisted page holds a link to another host and its links have all been
\* dealt with
C12_Witness ==
    /\ stack # <<>>
    /\ Top.pc = "expand"
    /\ Top.menu = {}
    /\ Top.links = <<>>
    /\ \E p \in PageFiles :
         /\ files[p].url = Top.url
         /\ \E k \in 1..Len(files[p].html) :
              /\ files[p].html[k].tag = "a"
              /\ LinkTarget(files[p].html[k].val, Top.url) # None
              /\ UrlOfHost(LinkTarget(files[p].html[k].val, Top.url)) # UrlOfHost(root)

\* C13: a top-level download_page call starts with an empty visited set of its
\* own, whatever the crawl of the capture before it has visited, and within
\* the call the one visited set holds every URL whose pipeline the call has
\* started at any level.
C13_VisitedPerTopLevelCall ==
    /\ [](visited = DOMAIN started)
    /\ [][(stack = <<>> /\ stack' # <<>>) => visited' = {}]_vars

\* the root, persisted for the first capture, has its pipeline started again
\* for the second capture
C13_Witness ==
    /\ timestamp = <<"2">>
    /\ root \in DOMAIN started
    /\ PagePath(root, <<"1">>) \in PageFiles
    /\ files[PagePath(root, <<"1">>)].url = root

\* the page a URL denotes: the URL without its fragment and without the
\* slashes that end its path
PageOf(parsed) ==
    [scheme |-> parsed.scheme, netloc |-> parsed.netloc,
     path |-> SubSeq(parsed.path, 1, LastNotOf(parsed.path, {"/"})),
     query |-> parsed.query]

\* C14: within one crawl the pipeline runs at most once for a page: two URLs
\* that denote the same page are not both started.
C14_OnePipelinePerPage ==
    \A u \in DOMAIN started : \A v \in DOMAIN started :
        PageOf(urlparse(u)) = PageOf(urlparse(v)) => u = v

\* C15: clean_url, get_base_url, safe_url_join and get_wayback_url return null
\* when an argument is null or the empty string.
C15_NullOnEmptyInput ==
    /\ (fn_call.op \in {"clean_url", "get_base_url"}
        /\ fn_call.a \in {None, <<>>}) => fn_call.res = None
    /\ (fn_call.op \in {"safe_url_join", "get_wayback_url"}
        /\ (fn_call.a \in {None, <<>>} \/ fn_call.b \in {None, <<>>})) =>
            fn_call.res = None

\* a join of a base URL with the empty string has returned null
C15_Witness ==
    /\ fn_call.op = "safe_url_join"
    /\ fn_call.a \notin {None, <<>>}
    /\ fn_call.b = <<>>
    /\ fn_call.res = None

\* C16: get_snapshots returns the rows of the index's table after the first
\* row, in the table's order, and the empty sequence for a table of at most
\* one row and for a failed request.
C16_SnapshotsAreRowsAfterHeader ==
    fn_call.op = "get_snapshots" =>
        IF fn_call.a.status = "ok" /\ Len(fn_call.a.rows) >= 1
        THEN /\ Len(fn_call.res) = Len(fn_call.a.rows) - 1
             /\ \A i \in 1..Len(fn_call.res) : fn_call.res[i] = fn_call.a.rows[i + 1]
        ELSE fn_call.res = <<>>

\* a header row and two different captures gave the two captures, in order
C16_Witness ==
    /\ fn_call.op = "get_snapshots"
    /\ Len(fn_call.a.rows) = 3
    /\ fn_call.a.rows[1] = HEADER_ROW
    /\ Len(fn_call.res) = 2
    /\ fn_call.res[1] # fn_call.res[2]
    /\ fn_call.res[1] = fn_call.a.rows[2]

\* C17: the general loop of a page calls download_page only when the menu
\* loop of that page has made all its calls, which have returned, and never
\* for a link of the page's menu-link set.
C17_MenuLinksFirst ==
    [][(/\ stack # <<>>
        /\ Top.pc = "expand"
        /\ Len(stack') = Len(stack) + 1
        /\ stack'[Len(stack)].links # Top.links) =>
            /\ Top.menu = {}
            /\ stack'[Len(stack')].url \notin Top.menu_links]_vars

\* the general loop calls download_page for a link outside the menu-link set
\* of a page whose menu link has been visited
C17_Witness ==
    /\ Len(stack) >= 2
    /\ Top.pc = "enter"
    /\ stack[Len(stack) - 1].pc = "expand"
    /\ stack[Len(stack) - 1].menu = {}
    /\ stack[Len(stack) - 1].menu_links \cap visited # {}
    /\ Top.url \notin stack[Len(stack) - 1].menu_links

\* C18: in process_html no attribute of the tree holds the local path of an
\* asset while a fetch dispatched for the page has not completed.
C18_NoRewriteBeforeAllFetched ==
    (stack # <<>> /\ Top.pc = "assets") =>
        \A i \in 1..Len(futures) :
            (futures[i].pc = "taken" /\ futures[i].outcome = "saved") =>
                \A j \in 1..Len(futures) : futures[j].pc \in {"done", "taken"}

\* C19: at most one page is in its fetch/rewrite/persist phase, which is the
\* innermost call: its callers wait in their link loops, a call is made only by
\* the innermost call from its link loops, and outside process_html no asset
\* fetch is in flight, neither when a page is persisted nor when the pipeline
\* of another page starts.
C19_PagesStrictlySequential ==
    /\ [](/\ \A i \in 1..(Len(stack) - 1) : stack[i].pc = "expand"
          /\ (stack = <<>> \/ Top.pc # "assets") =>
                 \A i \in 1..Len(futures) : futures[i].pc = "taken")
    /\ [][(stack # <<>> /\ Len(stack') = Len(stack) + 1) =>
              /\ Top.pc = "expand"
              /\ SubSeq(stack', 1, Len(stack) - 1) = SubSeq(stack, 1, Len(stack) - 1)
              /\ stack'[Len(stack')].pc = "enter"]_vars

\* a page below the root is persisted, the two asset fetches dispatched for it
\* having returned
C19_Witness ==
    /\ Len(stack) >= 2
    /\ Top.pc = "persist"
    /\ Len(futures) >= 2
    /\ \E i \in 1..Len(futures) : futures[i].outcome = "saved"

C21_FetchesBoundedByWorkers ==
    Cardinality({i \in 1..Len(futures) : futures[i].pc \in {"add", "fetch"}})
        <= concurrent_downloads

\* every worker is busy with a fetch while a task of the page waits in the queue
C21_Witness ==
    /\ Cardinality({i \in 1..Len(futures) : futures[i].pc = "fetch"})
           = concurrent_downloads
    /\ \E i \in 1..Len(futures) : futures[i].pc = "queued"

\* C22: the storage path of an asset is assets/ followed by index.html for an
\* empty URL path, and for a URL path with no extension by the path with the
\* extension mapped from the declared content type, or with .html when the
\* content type has no mapping.
C22_AssetPathExtension ==
    (fn_call.op = "get_asset_path" /\ ~Falsy(fn_call.a)) =>
        \E path \in {LStrip(urlparse(fn_call.a).path)} :
            /\ StartsWith(fn_call.res, ASSETS_DIR)
            /\ path = <<>> => fn_call.res = ASSETS_DIR \o INDEX_HTML
            /\ (path # <<>> /\ ~HasExt(path)) =>
                   fn_call.res = ASSETS_DIR \o path \o
                       (IF guess_extension(fn_call.b) # None
                        THEN guess_extension(fn_call.b) ELSE DOT_HTML)

\* every page the crawl has started has a file at its path and every asset it
\* has requested has one: no fetch and no write has failed
AllFetchesSucceeded ==
    /\ \A u \in visited : PagePath(u, timestamp) \in PageFiles
    /\ \A u \in DOMAIN asset_fetches :
           \E p \in DOMAIN files : files[p].kind = "asset" /\ files[p].url = u

\* the same-host links of the page persisted for u
LinksIn(html, u) ==
    MenuCalls(html, u)
        \cup The({{links[i] : i \in 1..Len(links)} : links \in {LinkCalls(html, u)}})

LinksOf(u) ==
    IF \E p \in PageFiles : files[p].url = u
    THEN The({LinksIn(html, u) :
                 html \in {files[CHOOSE p \in PageFiles : files[p].url = u].html}})
    ELSE {}

\* the URLs a chain of at most k links leads to from the root
RECURSIVE ReachableWithin(_)
ReachableWithin(k) ==
    IF k = 0 THEN {root}
    ELSE The({R \cup UNION {LinksOf(u) : u \in R} : R \in {ReachableWithin(k - 1)}})

\* C23: when no fetch has failed, the finished crawl has written the file of
\* every same-host page that a chain of at most max_depth links leads to from
\* the root, whatever the order of the visits.
C23_ReachablePagesPersisted ==
    (Finished /\ AllFetchesSucceeded) =>
        \A u \in ReachableWithin(max_depth) : PagePath(u, timestamp) \in PageFiles

\* C24: within one crawl no page is written over the file of a page with
\* another URL: two persisted pages with distinct URLs have distinct files.
C24_DistinctPagesDistinctFiles ==
    [][\A p \in PageFiles :
          (p \in DOMAIN files' /\ files'[p].kind = "page") =>
              files'[p].url = files[p].url]_vars

\* the asset URLs the run has saved a file for
SavedAssets == {files[p].url : p \in {q \in DOMAIN files : files[q].kind = "asset"}}

\* C25: in every persisted page, an asset reference whose asset URL the run has
\* fetched and saved holds the local path of the asset, also when the URL is
\* referenced a second time in the page or in a later page.
C25_SavedAssetsReferencedLocally ==
    \A p \in PageFiles :
        \A k \in 1..Len(files[p].html) :
            \E t \in {AssetTarget(files[p].html[k], get_base_url(files[p].url))} :
                (t # None /\ t \in SavedAssets) =>
                    StartsWith(files[p].html[k].val, ASSETS_DIR)

=============================================================================
